---- MODULE Spec2Model ----
(***************************************************************************)
(* A model of the PLONK proof-system core of ark-plonk:                    *)
(*   - proof_system/verifier.rs      : the Verifier object and its calls   *)
(*   - proof_system/quotient_poly.rs : compute() of the quotient           *)
(*     polynomial with its t1 / t2 helpers                                 *)
(* Two specifications share the module: SpecVerifier drives the Verifier,  *)
(* SpecQuotient drives one call of compute().                              *)
(***************************************************************************)
EXTENDS Integers, Sequences, FiniteSets

VARIABLES
    \* ---- Verifier (verifier.rs:18-29)
    verifier_key,             \* Option<VerifierKey>
    cs,                       \* StandardComposer (the circuit descriptor)
    preprocessed_transcript,  \* Transcript kept by the Verifier
    cloned_transcript,        \* the working copy of the last verify call
    result,                   \* what the last call returned to its caller
    first_verify,             \* first verify since the stored state last changed
    \* ---- compute() (quotient_poly.rs:17-103)
    pc,                       \* position inside compute
    input,                    \* the arguments of the call
    z_eval_4n, wl_eval_4n, wr_eval_4n, wo_eval_4n, w4_eval_4n,
    pi_eval_4n, l1_alpha_sq_evals,
    t_1, t_2, quotient,       \* outputs of the three per-index loops
    done,                     \* indices the running loop has finished
    outcome                   \* Result<Polynomial, Error> or a panic

vvars == <<verifier_key, cs, preprocessed_transcript, cloned_transcript,
           result, first_verify>>
evals == <<z_eval_4n, wl_eval_4n, wr_eval_4n, wo_eval_4n, w4_eval_4n,
           pi_eval_4n, l1_alpha_sq_evals>>
qvars == <<pc, input, evals, t_1, t_2, quotient, done, outcome>>
vars  == <<vvars, qvars>>

-----------------------------------------------------------------------------
(* Bounds of the model *)
MaxGates      == 1    \* circuit sizes 0..MaxGates
MaxTranscript == 3    \* messages the preprocessed transcript may hold

-----------------------------------------------------------------------------
(* Verifier *)

None     == [tag |-> "None", val |-> 0]
Some(v)  == [tag |-> "Some", val |-> v]
Ok(v)    == [tag |-> "Ok", val |-> v]
Err(e)   == [tag |-> "Err", val |-> e]
Panic(m) == [tag |-> "Panic", val |-> m]

RECURSIVE SumSeq(_)
SumSeq(s) == IF s = <<>> THEN 0 ELSE Head(s) + SumSeq(Tail(s))

\* Transcript::append_message: the transcript is append-only
AppendMessage(t, m) == Append(t, m)

\* Transcript::challenge_scalar: a challenge is a function of all that was
\* appended so far
ChallengeScalar(t) == (SumSeq(t) + Len(t)) % 2

CircuitDescriptors == [gates : 0..MaxGates, well_formed : BOOLEAN]
CommitKeys  == {1, 2}      \* the largest degree the key commits to
OpeningKeys == {1, 2}      \* the opening key that goes with a commit key
PublicInputs == {0, 1}
Messages == {1, 2}
Proofs == [gates : 1..MaxGates, challenge : {0, 1}]
NoProof == [gates |-> 0, challenge |-> 0]   \* a call that takes no proof

\* StandardComposer::preprocess_verifier(commit_key, &mut transcript):
\* the new transcript and either the key or the error
PreprocessVerifier(c, commit_key, t) ==
    IF ~c.well_formed
    THEN [transcript |-> t, res |-> Err("MismatchedPolyLen")]
    ELSE LET t1 == AppendMessage(t, (c.gates % 2) + 1)
         IN  IF c.gates = 0 \/ c.gates > commit_key
             THEN [transcript |-> t1, res |-> Err("PolynomialDegreeTooLarge")]
             ELSE [transcript |-> t1,
                   res |-> Ok([gates |-> c.gates, ck |-> commit_key])]

\* Proof::verify(verifier_key, &mut transcript, opening_key, public_inputs):
\* the transcript it was handed, after the call, and its result
ProofVerify(proof, vk, t, opening_key, public_inputs) ==
    LET t1 == AppendMessage(t, public_inputs + 1)
    IN  [transcript |-> t1,
         res |-> IF /\ proof.gates = vk.gates
                    /\ opening_key = vk.ck
                    /\ proof.challenge = ChallengeScalar(t1)
                 THEN Ok("unit") ELSE Err("ProofVerificationFailed")]

\* The transcript proof.verify works on, as a reference: "cloned" is the
\* local copy made at verifier.rs:95
VerifyAliasedTranscript == "self"
VerifyWorkingTranscript == "cloned"

\* Option::unwrap of the stored key (verifier.rs:96)
VerifierKeyUnwrap(k) ==
    IF k.tag = "Some" THEN Ok(k.val)
    ELSE Panic("called Option::unwrap() on a None value")

\* What preprocess stores given the key it holds and preprocess_verifier's
\* result (the ? operator returns early on Err, verifier.rs:73-78)
PreprocessKeepsFirstKey(old, r) ==
    IF r.tag = "Ok" /\ old.tag = "None" THEN Some(r.val) ELSE old
PreprocessStoresAlways(old, r) ==
    IF r.tag = "Ok" THEN Some(r.val) ELSE Some([gates |-> 0, ck |-> 0])
PreprocessStoredKey(old, r) ==
    IF r.tag = "Ok" THEN Some(r.val) ELSE old

Running == result.res.tag # "Panic"

\* Verifier::preprocess (verifier.rs:69-80)
Preprocess(commit_key) ==
    /\ Running
    /\ Len(preprocessed_transcript) < MaxTranscript
    /\ LET r == PreprocessVerifier(cs, commit_key, preprocessed_transcript)
       IN  /\ preprocessed_transcript' = r.transcript
           /\ verifier_key' = PreprocessStoredKey(verifier_key, r.res)
           /\ result' = [op |-> "preprocess", args |-> <<NoProof, commit_key, 0>>, ret |-> 0,
                         res |-> IF r.res.tag = "Ok" THEN Ok("unit") ELSE r.res]
    /\ first_verify' = None
    /\ UNCHANGED <<cs, cloned_transcript, qvars>>

\* Verifier::key_transcript (verifier.rs:84-86)
KeyTranscript(message) ==
    /\ Running
    /\ Len(preprocessed_transcript) < MaxTranscript
    /\ preprocessed_transcript' = AppendMessage(preprocessed_transcript, message)
    /\ result' = [op |-> "key_transcript", args |-> <<NoProof, message, 0>>,
                  ret |-> 0, res |-> Ok("unit")]
    /\ first_verify' = None
    /\ UNCHANGED <<verifier_key, cs, cloned_transcript, qvars>>

\* Verifier::mut_cs (verifier.rs:62-64): the caller edits the composer
MutCs(c) ==
    /\ Running
    /\ c # cs
    /\ cs' = c
    /\ result' = [op |-> "mut_cs", args |-> <<NoProof, c.gates, 0>>,
                  ret |-> 0, res |-> Ok("unit")]
    /\ first_verify' = None
    /\ UNCHANGED <<verifier_key, preprocessed_transcript, cloned_transcript, qvars>>

\* Verifier::circuit_size (verifier.rs:57-59)
CircuitSize ==
    /\ Running
    /\ result' = [op |-> "circuit_size", args |-> <<NoProof, 0, 0>>,
                  ret |-> cs.gates, res |-> Ok("unit")]
    /\ UNCHANGED <<verifier_key, cs, preprocessed_transcript, cloned_transcript,
                   first_verify, qvars>>

\* Verifier::verify (verifier.rs:89-104)
Verify(proof, opening_key, public_inputs) ==
    /\ Running
    /\ LET heap0 == [self |-> preprocessed_transcript,
                     cloned |-> preprocessed_transcript]      \* line 95
           key   == VerifierKeyUnwrap(verifier_key)            \* line 96
           ref   == VerifyWorkingTranscript
           r     == ProofVerify(proof, key.val, heap0[ref],
                                opening_key, public_inputs)    \* lines 98-103
           heap1 == IF key.tag = "Ok"
                    THEN [heap0 EXCEPT ![ref] = r.transcript] ELSE heap0
           res   == IF key.tag = "Ok" THEN r.res ELSE key
           call  == [op |-> "verify",
                     args |-> <<proof, opening_key, public_inputs>>, ret |-> 0,
                     res |-> res]
       IN  /\ preprocessed_transcript' = heap1.self
           /\ cloned_transcript' = heap1.cloned
           /\ result' = call
           /\ first_verify' = IF first_verify = None /\ key.tag = "Ok"
                              THEN Some(call) ELSE first_verify
    /\ UNCHANGED <<verifier_key, cs, qvars>>

\* Verifier::new (verifier.rs:39-45); the label is the transcript's first
\* message
VerifierNew(label) ==
    /\ verifier_key = None
    /\ cs = [gates |-> 0, well_formed |-> TRUE]
    /\ preprocessed_transcript = <<label>>
    /\ cloned_transcript = <<>>
    /\ result = [op |-> "new", args |-> <<NoProof, label, 0>>,
                 ret |-> 0, res |-> Ok("unit")]
    /\ first_verify = None


-----------------------------------------------------------------------------
(* The prime field F and the evaluation domains compute() is generic over *)

MaxLogSize == 2    \* domain.size() ranges over 2^0 .. 2^MaxLogSize
MaxSeed    == 1    \* the argument families are numbered 0..MaxSeed

\* F: PrimeField. A small prime field with the shape of a pairing-friendly
\* scalar field: its multiplicative group has a 2-power part (of order
\* 2^two_adicity, generated by root_of_unity) and an odd part, and generator
\* generates the whole group, so that the coset generator * H never meets H.
FieldParams ==
    [modulus |-> 41, generator |-> 6, two_adicity |-> 3, root_of_unity |-> 27]
P == FieldParams.modulus

FAdd(a, b) == (a + b) % P
FSub(a, b) == (a + P - b) % P
FMul(a, b) == (a * b) % P
RECURSIVE FPow(_, _)
FPow(a, e) == IF e = 0 THEN 1 ELSE FMul(a, FPow(a, e - 1))
\* Field::invert / Field::inverse: None on zero
FInvert(a) == IF a = 0 THEN None ELSE Some(FPow(a, P - 2))

RECURSIVE Pow2(_)
Pow2(k) == IF k = 0 THEN 1 ELSE 2 * Pow2(k - 1)

\* EvaluationDomain::new(size)
EvaluationDomainNew(size) ==
    IF \E k \in 0..FieldParams.two_adicity : size = Pow2(k)
    THEN Ok([size |-> size,
             group_gen |-> FPow(FieldParams.root_of_unity,
                                Pow2(FieldParams.two_adicity) \div size)])
    ELSE Err("InvalidDomainSize")

\* Vec::resize(len, zero)
Resize(s, len) ==
    [j \in 1..len |-> IF j <= Len(s) THEN s[j] ELSE 0]

RECURSIVE PolyEval(_, _)
PolyEval(coeffs, x) ==
    IF coeffs = <<>> THEN 0
    ELSE FAdd(Head(coeffs), FMul(x, PolyEval(Tail(coeffs), x)))

\* the i-th point (from 0) of the domain and of its coset
DomainPoint(dom, i) == FPow(dom.group_gen, i)
CosetPoint(dom, i) == FMul(FieldParams.generator, DomainPoint(dom, i))

\* EvaluationDomain::coset_fft: the evaluations over the coset, one per point
CosetFft(dom, coeffs) ==
    [i \in 1..dom.size |->
        PolyEval(Resize(coeffs, dom.size), CosetPoint(dom, i - 1))]

RECURSIVE FSum(_, _, _)
FSum(f, lo, hi) == IF lo > hi THEN 0 ELSE FAdd(f[lo], FSum(f, lo + 1, hi))

\* EvaluationDomain::ifft: the coefficients of the polynomial of degree
\* below size with the given evaluations over the domain
Ifft(dom, ev) ==
    LET e  == Resize(ev, dom.size)
        ni == FInvert(dom.size % P).val
        wi == FInvert(dom.group_gen).val
    IN  [j \in 1..dom.size |->
            FMul(ni, FSum([i \in 1..dom.size |->
                              FMul(e[i], FPow(wi, (i - 1) * (j - 1)))],
                          1, dom.size))]

\* EvaluationDomain::coset_ifft
CosetIfft(dom, ev) ==
    LET c  == Ifft(dom, ev)
        gi == FInvert(FieldParams.generator).val
    IN  [j \in 1..dom.size |-> FMul(c[j], FPow(gi, j - 1))]

\* Polynomial::from_coefficients_vec: trailing zeros are dropped
RECURSIVE FromCoefficientsVec(_)
FromCoefficientsVec(c) ==
    IF c # <<>> /\ c[Len(c)] = 0
    THEN FromCoefficientsVec(SubSeq(c, 1, Len(c) - 1)) ELSE c

-----------------------------------------------------------------------------
(* The arguments of compute() *)

DomainSizes == {Pow2(k) : k \in 0..MaxLogSize}
Seeds == 0..MaxSeed

PolyOf(seed, k, len) ==
    [j \in 1..len |-> (seed * (k + 2) * j + k + 3 * j * j) % P]

ChallengesOf(seed) ==
    [alpha |-> 2 + seed, beta |-> 3 + seed, gamma |-> 5,
     range_challenge |-> 7 + seed, logic_challenge |-> 11,
     fixed_base_challenge |-> 13, var_base_challenge |-> 17]

\* an index of the 4n coset at which the key's vanishing evaluation is zero,
\* or -1 for the key of a correctly chosen coset
VhFaults(n) == {-1, 0, 4 * n - 1}

\* ProverKey: every sequence is over the 4n coset
ProverKeyOf(seed, n, fault) ==
    LET d   == EvaluationDomainNew(4 * n)
        x   == [i \in 1..(4 * n) |->
                   IF d.tag = "Ok" THEN CosetPoint(d.val, i - 1) ELSE 1 + i]
        sel(k) == [i \in 1..(4 * n) |-> (seed + k * i + i * i) % P]
    IN  [q_m |-> sel(1), q_l |-> sel(2), q_r |-> sel(3), q_o |-> sel(4),
         q_4 |-> sel(5), q_c |-> sel(6), q_range |-> sel(7),
         q_logic |-> sel(8), q_fixed |-> sel(9), q_variable |-> sel(10),
         left_sigma |-> sel(11), right_sigma |-> sel(12),
         out_sigma |-> sel(13), fourth_sigma |-> sel(14),
         linear_evaluations |-> x,
         v_h_coset_4n |-> [i \in 1..(4 * n) |->
                              IF i - 1 = fault THEN 0
                              ELSE FSub(FPow(x[i], n), 1)]]

ComputeArgs(n, seed, fault) ==
    [n |-> n,                       \* domain.size()
     prover_key |-> ProverKeyOf(seed, n, fault),
     z_poly |-> PolyOf(seed, 0, n + 3),
     w_l_poly |-> PolyOf(seed, 1, n + 2),
     w_r_poly |-> PolyOf(seed, 2, n + 2),
     w_o_poly |-> PolyOf(seed, 3, n + 2),
     w_4_poly |-> PolyOf(seed, 4, n + 2),
     public_inputs_poly |-> PolyOf(seed, 5, n),
     challenges |-> ChallengesOf(seed)]

\* 0-based indexing of a Vec or slice
At(s, i) == s[i + 1]

-----------------------------------------------------------------------------
(* The widgets of the prover key: compute_quotient_i of each gate kind *)

\* prover_key.arithmetic.compute_quotient_i(i, wl, wr, wo, w4)
ArithmeticQuotient(pk, i, wl, wr, wo, w4) ==
    FAdd(FAdd(FAdd(FMul(At(pk.q_m, i), FMul(wl, wr)), FMul(At(pk.q_l, i), wl)),
              FAdd(FMul(At(pk.q_r, i), wr), FMul(At(pk.q_o, i), wo))),
         FAdd(FMul(At(pk.q_4, i), w4), At(pk.q_c, i)))

\* the quartic that vanishes on 0, 1, 2, 3
Delta(f) == FMul(FMul(f, FSub(f, 1)), FMul(FSub(f, 2), FSub(f, 3)))

\* prover_key.range.compute_quotient_i(i, challenge, wl, wr, wo, w4, w4_next)
RangeQuotient(pk, i, ch, wl, wr, wo, w4, w4_next) ==
    LET k2 == FMul(ch, ch)
        k3 == FMul(k2, ch)
        b1 == Delta(FSub(wo, FMul(4, w4)))
        b2 == FMul(ch, Delta(FSub(wr, FMul(4, wo))))
        b3 == FMul(k2, Delta(FSub(wl, FMul(4, wr))))
        b4 == FMul(k3, Delta(FSub(w4_next, FMul(4, wl))))
    IN  FMul(FMul(At(pk.q_range, i), ch), FAdd(FAdd(b1, b2), FAdd(b3, b4)))

\* the shape shared by the two-row gates: a selector- and challenge-weighted
\* combination of the wire values of the row and of the next row
TwoRowQuotient(sel, i, ch, wl, wl_next, wr, wr_next, wo, w4, w4_next) ==
    LET k2 == FMul(ch, ch)
        k3 == FMul(k2, ch)
        a  == FSub(wl_next, FMul(4, wl))
        b  == FSub(wr_next, FMul(4, wr))
        d  == FSub(w4_next, FMul(4, w4))
    IN  FMul(FMul(At(sel, i), ch),
             FAdd(FAdd(Delta(a), FMul(ch, Delta(b))),
                  FAdd(FMul(k2, Delta(d)), FMul(k3, FSub(wo, FMul(a, b))))))

\* prover_key.logic.compute_quotient_i
LogicQuotient(pk, i, ch, wl, wl_next, wr, wr_next, wo, w4, w4_next) ==
    TwoRowQuotient(pk.q_logic, i, ch, wl, wl_next, wr, wr_next, wo, w4, w4_next)

\* prover_key.fixed_base.compute_quotient_i
FixedBaseQuotient(pk, i, ch, wl, wl_next, wr, wr_next, wo, w4, w4_next) ==
    TwoRowQuotient(pk.q_fixed, i, ch, wl, wl_next, wr, wr_next, wo, w4, w4_next)

\* prover_key.variable_base.compute_quotient_i
VariableBaseQuotient(pk, i, ch, wl, wl_next, wr, wr_next, wo, w4, w4_next) ==
    TwoRowQuotient(pk.q_variable, i, ch, wl, wl_next, wr, wr_next, wo, w4, w4_next)

\* prover_key.permutation.compute_quotient_i: the grand-product identity
\* weighted by alpha and the boundary condition weighted by alpha^2 L1
PermutationQuotient(pk, i, wl, wr, wo, w4, z, z_next, alpha, l1_alpha_sq, beta, gamma) ==
    LET x  == At(pk.linear_evaluations, i)
        id(w, k) == FAdd(FAdd(w, FMul(FMul(beta, k), x)), gamma)
        sg(w, sigma) == FAdd(FAdd(w, FMul(beta, At(sigma, i))), gamma)
        a  == FMul(FMul(FMul(id(wl, 1), id(wr, 7)),
                        FMul(id(wo, 13), id(w4, 17))), FMul(z, alpha))
        b  == FMul(FMul(FMul(sg(wl, pk.left_sigma), sg(wr, pk.right_sigma)),
                        FMul(sg(wo, pk.out_sigma), sg(w4, pk.fourth_sigma))),
                   FMul(z_next, alpha))
        c  == FMul(FSub(z, 1), l1_alpha_sq)
    IN  FAdd(FSub(a, b), c)

-----------------------------------------------------------------------------
(* compute() and its helpers *)

Returned(tag, msg, poly) == [tag |-> tag, msg |-> msg, poly |-> poly]
NoOutcome == Returned("None", "", <<>>)
Uninit == -1     \* a slot of an output no index has written yet

\* the size each function asks EvaluationDomain::new for
ComputeDomainSize(n) == 4 * n                   \* line 39
SatisfiabilityDomainWrongSize(n) == 8 * n
SatisfiabilityDomainSize(n) == 4 * n            \* line 118
PermutationDomainSize(n) == 4 * n               \* line 199

Domain4n == EvaluationDomainNew(ComputeDomainSize(input.n))
SatisfiabilityDomain == EvaluationDomainNew(SatisfiabilityDomainSize(input.n))
PermutationDomain == EvaluationDomainNew(PermutationDomainSize(input.n))

\* the four pushes after a coset_fft (lines 41-44, 48-51, 53-56, 60-63)
ExtendByThree(ev) == ev \o <<ev[1], ev[2], ev[3]>>
ExtendRotated(ev) == ev \o <<ev[2], ev[3], ev[4], ev[1]>>
Extend(ev) == ev \o <<ev[1], ev[2], ev[3], ev[4]>>

\* a read s[i] of a slice: what is read and where
Read(name, s, i) == [name |-> name, len |-> Len(s), idx |-> i]
OutOfBounds(reads) == \E r \in reads : r.idx >= r.len

\* the slot of the collected Vec that index i fills when the indices in
\* finished have already completed: collect() of an indexed iterator keeps
\* the order of the range, whatever the order of evaluation
OutputSlotByCompletion(i, finished) == Cardinality(finished)
OutputSlot(i, finished) == i

\* compute_first_lagrange_poly_scaled (lines 229-237)
ComputeFirstLagrangePolyScaled(dom, scale) ==
    LET x_evals == [j \in 1..dom.size |-> IF j = 1 THEN scale ELSE 0]
    IN  FromCoefficientsVec(Ifft(dom, x_evals))

\* the reads of one index of the loop of
\* compute_circuit_satisfiability_equation (lines 129-136)
T1Reads(i) ==
    {Read("wl_eval_4n", wl_eval_4n, i), Read("wr_eval_4n", wr_eval_4n, i),
     Read("wo_eval_4n", wo_eval_4n, i), Read("w4_eval_4n", w4_eval_4n, i),
     Read("wl_eval_4n", wl_eval_4n, i + 4),
     Read("wr_eval_4n", wr_eval_4n, i + 4),
     Read("w4_eval_4n", w4_eval_4n, i + 4),
     Read("pi_eval_4n", pi_eval_4n, i)}

\* the value of one index of that loop (lines 128-187)
T1At(i) ==
    LET pk == input.prover_key
        ch == input.challenges
        wl == At(wl_eval_4n, i)
        wr == At(wr_eval_4n, i)
        wo == At(wo_eval_4n, i)
        w4 == At(w4_eval_4n, i)
        wl_next == At(wl_eval_4n, i + 4)
        wr_next == At(wr_eval_4n, i + 4)
        w4_next == At(w4_eval_4n, i + 4)
        pi == At(pi_eval_4n, i)
        a == ArithmeticQuotient(pk, i, wl, wr, wo, w4)
        b == RangeQuotient(pk, i, ch.range_challenge, wl, wr, wo, w4, w4_next)
        c == LogicQuotient(pk, i, ch.logic_challenge,
                           wl, wl_next, wr, wr_next, wo, w4, w4_next)
        d == FixedBaseQuotient(pk, i, ch.fixed_base_challenge,
                               wl, wl_next, wr, wr_next, wo, w4, w4_next)
        e == VariableBaseQuotient(pk, i, ch.var_base_challenge,
                                  wl, wl_next, wr, wr_next, wo, w4, w4_next)
    IN  FAdd(FAdd(FAdd(FAdd(FAdd(a, pi), b), c), d), e)

\* the reads of one index of the loop of compute_permutation_checks
\* (lines 214-221)
T2Reads(i) ==
    {Read("wl_eval_4n", wl_eval_4n, i), Read("wr_eval_4n", wr_eval_4n, i),
     Read("wo_eval_4n", wo_eval_4n, i), Read("w4_eval_4n", w4_eval_4n, i),
     Read("z_eval_4n", z_eval_4n, i), Read("z_eval_4n", z_eval_4n, i + 4),
     Read("l1_alpha_sq_evals", l1_alpha_sq_evals, i)}

\* the value of one index of that loop (lines 211-225)
T2At(i) ==
    PermutationQuotient(input.prover_key, i,
        At(wl_eval_4n, i), At(wr_eval_4n, i), At(wo_eval_4n, i),
        At(w4_eval_4n, i), At(z_eval_4n, i), At(z_eval_4n, i + 4),
        input.challenges.alpha, At(l1_alpha_sq_evals, i),
        input.challenges.beta, input.challenges.gamma)

\* the reads of one index of the quotient loop (lines 94-95)
QuotientReads(i) ==
    {Read("t_1", t_1, i), Read("t_2", t_2, i),
     Read("v_h_coset_4n", input.prover_key.v_h_coset_4n, i)}

\* the value of one index of the quotient loop (lines 93-97); None stands for
\* the failed invert()
QuotientAtNoInverse(i) ==
    LET numerator == FAdd(At(t_1, i), At(t_2, i))
        denominator == At(input.prover_key.v_h_coset_4n, i)
    IN  IF denominator = 0 THEN None ELSE Some(FMul(numerator, denominator))
QuotientAt(i) ==
    LET numerator == FAdd(At(t_1, i), At(t_2, i))
        denominator == At(input.prover_key.v_h_coset_4n, i)
        inverse == FInvert(denominator)
    IN  IF inverse = None THEN None ELSE Some(FMul(numerator, inverse.val))

Blank(size) == [j \in 1..size |-> Uninit]

\* compute, lines 38-63: the 4n domain, the coset evaluations and their
\* extension
Setup ==
    /\ pc = "setup"
    /\ IF Domain4n.tag = "Err"
       THEN /\ pc' = "returned"
            /\ outcome' = Returned("Err", Domain4n.val, <<>>)   \* the ? of line 39
            /\ UNCHANGED evals
       ELSE LET d == Domain4n.val
                z  == CosetFft(d, input.z_poly)
                wl == CosetFft(d, input.w_l_poly)
                wr == CosetFft(d, input.w_r_poly)
                wo == CosetFft(d, input.w_o_poly)
                w4 == CosetFft(d, input.w_4_poly)
            IN  IF OutOfBounds({Read("z_eval_4n", z, 3)})
                THEN /\ pc' = "returned"
                     /\ outcome' = Returned("Panic", "index out of bounds", <<>>)
                     /\ UNCHANGED evals
                ELSE /\ z_eval_4n' = Extend(z)
                     /\ wl_eval_4n' = Extend(wl)
                     /\ wr_eval_4n' = Extend(wr)
                     /\ wo_eval_4n' = wo
                     /\ w4_eval_4n' = Extend(w4)
                     /\ pc' = "t1_begin"
                     /\ UNCHANGED <<pi_eval_4n, l1_alpha_sq_evals, outcome>>
    /\ UNCHANGED <<input, t_1, t_2, quotient, done, vvars>>

\* compute_circuit_satisfiability_equation, lines 118-119
T1Begin ==
    /\ pc = "t1_begin"
    /\ IF SatisfiabilityDomain.tag = "Err"
       THEN /\ pc' = "returned"
            /\ outcome' = Returned("Panic", "unwrap on Err(InvalidDomainSize)", <<>>)
            /\ UNCHANGED <<pi_eval_4n, t_1>>
       ELSE /\ pi_eval_4n' = CosetFft(SatisfiabilityDomain.val,
                                      input.public_inputs_poly)
            /\ t_1' = Blank(SatisfiabilityDomain.val.size)
            /\ pc' = "t1"
            /\ UNCHANGED outcome
    /\ done' = {}
    /\ UNCHANGED <<input, z_eval_4n, wl_eval_4n, wr_eval_4n, wo_eval_4n,
                   w4_eval_4n, l1_alpha_sq_evals, t_2, quotient, vvars>>

\* one index of the loop of lines 127-188, in any order
T1Index(i) ==
    /\ pc = "t1"
    /\ i \in (0..(SatisfiabilityDomain.val.size - 1)) \ done
    /\ IF OutOfBounds(T1Reads(i))
       THEN /\ pc' = "returned"
            /\ outcome' = Returned("Panic", "index out of bounds", <<>>)
            /\ UNCHANGED <<t_1, done>>
       ELSE /\ t_1' = [t_1 EXCEPT ![OutputSlot(i, done) + 1] = T1At(i)]
            /\ IF done \cup {i} = 0..(SatisfiabilityDomain.val.size - 1)
               THEN pc' = "t2_begin" /\ done' = {}
               ELSE pc' = "t1" /\ done' = done \cup {i}
            /\ UNCHANGED outcome
    /\ UNCHANGED <<input, evals, t_2, quotient, vvars>>

\* compute_permutation_checks, lines 199-202
T2Begin ==
    /\ pc = "t2_begin"
    /\ IF PermutationDomain.tag = "Err"
       THEN /\ pc' = "returned"
            /\ outcome' = Returned("Panic", "unwrap on Err(InvalidDomainSize)", <<>>)
            /\ UNCHANGED <<l1_alpha_sq_evals, t_2>>
       ELSE LET alpha == input.challenges.alpha
                domain == EvaluationDomainNew(input.n).val
                l1_poly_alpha ==
                    ComputeFirstLagrangePolyScaled(domain, FMul(alpha, alpha))
            IN  /\ l1_alpha_sq_evals' =
                        CosetFft(PermutationDomain.val, l1_poly_alpha)
                /\ t_2' = Blank(PermutationDomain.val.size)
                /\ pc' = "t2"
                /\ UNCHANGED outcome
    /\ done' = {}
    /\ UNCHANGED <<input, z_eval_4n, wl_eval_4n, wr_eval_4n, wo_eval_4n,
                   w4_eval_4n, pi_eval_4n, t_1, quotient, vvars>>

\* one index of the loop of lines 210-226, in any order
T2Index(i) ==
    /\ pc = "t2"
    /\ i \in (0..(PermutationDomain.val.size - 1)) \ done
    /\ IF OutOfBounds(T2Reads(i))
       THEN /\ pc' = "returned"
            /\ outcome' = Returned("Panic", "index out of bounds", <<>>)
            /\ UNCHANGED <<t_2, quotient, done>>
       ELSE /\ t_2' = [t_2 EXCEPT ![OutputSlot(i, done) + 1] = T2At(i)]
            /\ IF done \cup {i} = 0..(PermutationDomain.val.size - 1)
               THEN /\ pc' = "quotient"
                    /\ done' = {}
                    /\ quotient' = Blank(Domain4n.val.size)
               ELSE /\ pc' = "t2"
                    /\ done' = done \cup {i}
                    /\ UNCHANGED quotient
            /\ UNCHANGED outcome
    /\ UNCHANGED <<input, evals, t_1, vvars>>

\* one index of the loop of lines 92-98, in any order
QuotientIndex(i) ==
    /\ pc = "quotient"
    /\ i \in (0..(Domain4n.val.size - 1)) \ done
    /\ IF OutOfBounds(QuotientReads(i))
       THEN /\ pc' = "returned"
            /\ outcome' = Returned("Panic", "index out of bounds", <<>>)
            /\ UNCHANGED <<quotient, done>>
       ELSE IF QuotientAt(i) = None
       THEN /\ pc' = "returned"
            /\ outcome' = Returned("Panic", "unwrap on None", <<>>)  \* line 96
            /\ UNCHANGED <<quotient, done>>
       ELSE /\ quotient' = [quotient EXCEPT
                               ![OutputSlot(i, done) + 1] = QuotientAt(i).val]
            /\ IF done \cup {i} = 0..(Domain4n.val.size - 1)
               THEN pc' = "finish" /\ done' = {}
               ELSE pc' = "quotient" /\ done' = done \cup {i}
            /\ UNCHANGED outcome
    /\ UNCHANGED <<input, evals, t_1, t_2, vvars>>

\* compute, lines 100-102
Finish ==
    /\ pc = "finish"
    /\ pc' = "returned"
    /\ outcome' = Returned("Ok", "",
                      FromCoefficientsVec(CosetIfft(Domain4n.val, quotient)))
    /\ UNCHANGED <<input, evals, t_1, t_2, quotient, done, vvars>>

VIdle == VerifierNew(1)

InitQuotient ==
    /\ VIdle
    /\ pc = "setup"
    /\ \E n \in DomainSizes, seed \in Seeds :
         \E fault \in VhFaults(n) : input = ComputeArgs(n, seed, fault)
    /\ z_eval_4n = <<>> /\ wl_eval_4n = <<>> /\ wr_eval_4n = <<>>
    /\ wo_eval_4n = <<>> /\ w4_eval_4n = <<>>
    /\ pi_eval_4n = <<>> /\ l1_alpha_sq_evals = <<>>
    /\ t_1 = <<>> /\ t_2 = <<>> /\ quotient = <<>>
    /\ done = {}
    /\ outcome = NoOutcome

Indices == 0..(4 * Pow2(MaxLogSize) - 1)

NextQuotient ==
    \/ Setup
    \/ T1Begin
    \/ \E i \in Indices : T1Index(i)
    \/ T2Begin
    \/ \E i \in Indices : T2Index(i)
    \/ \E i \in Indices : QuotientIndex(i)
    \/ Finish

SpecQuotient == InitQuotient /\ [][NextQuotient]_vars

QIdle ==
    /\ pc = "idle"
    /\ input = <<>>
    /\ z_eval_4n = <<>> /\ wl_eval_4n = <<>> /\ wr_eval_4n = <<>>
    /\ wo_eval_4n = <<>> /\ w4_eval_4n = <<>>
    /\ pi_eval_4n = <<>> /\ l1_alpha_sq_evals = <<>>
    /\ t_1 = <<>> /\ t_2 = <<>> /\ quotient = <<>>
    /\ done = {}
    /\ outcome = NoOutcome

InitVerifier == (\E label \in Messages : VerifierNew(label)) /\ QIdle

NextVerifier ==
    \/ \E commit_key \in CommitKeys : Preprocess(commit_key)
    \/ \E message \in Messages : KeyTranscript(message)
    \/ \E c \in CircuitDescriptors : MutCs(c)
    \/ CircuitSize
    \/ \E proof \in Proofs, opening_key \in OpeningKeys,
          public_inputs \in PublicInputs :
            Verify(proof, opening_key, public_inputs)

SpecVerifier == InitVerifier /\ [][NextVerifier]_vars

\* Every call records its name in result, so the name tells which call a
\* step is.
VerifyStep == result'.op = "verify"
PreprocessStep == result'.op = "preprocess"

\* C1: a verify call on a Ready Verifier leaves the verifier key, the
\* preprocessed transcript and the composer as they were, whether it succeeds
\* or fails; and every verify made since the stored state last changed with
\* the arguments of the first one returns what the first one returned.
C1_VerifyLeavesStateUnchanged ==
    [][(VerifyStep /\ verifier_key.tag = "Some")
        => /\ UNCHANGED <<verifier_key, preprocessed_transcript, cs>>
           /\ (first_verify'.val.args = result'.args
                    => result'.res = first_verify'.val.res)]_vars

\* C1 witness: a Ready Verifier has verified successfully after an earlier
\* verify with other arguments, and the working copy differs from the stored
\* transcript.
C1_Witness ==
    /\ verifier_key.tag = "Some"
    /\ result.op = "verify" /\ result.res = Ok("unit")
    /\ first_verify.tag = "Some" /\ first_verify.val.args # result.args
    /\ first_verify.val.res.tag = "Err"
    /\ cloned_transcript # preprocessed_transcript

\* C2: verify on an Unprocessed Verifier returns the checked error
\* VerifierNotPreprocessed (no panic).
C2_UnprocessedVerifyIsCheckedError ==
    (result.op = "verify" /\ verifier_key = None)
        => result.res = Err("VerifierNotPreprocessed")

\* C3: a preprocess call that returns an error leaves the verifier key as it
\* was (an Unprocessed Verifier stays Unprocessed) and hands the error of
\* preprocess_verifier to the caller.
C3_FailedPreprocessKeepsKey ==
    [][(PreprocessStep /\ result'.res.tag = "Err")
        => /\ verifier_key' = verifier_key
           /\ (verifier_key = None => verifier_key' = None)
           /\ result'.res \in {Err("MismatchedPolyLen"),
                                Err("PolynomialDegreeTooLarge")}]_vars

\* C3 witness: a preprocess call has failed on an Unprocessed Verifier.
C3_Witness ==
    /\ result.op = "preprocess" /\ result.res.tag = "Err"
    /\ verifier_key = None

\* C4: a new Verifier is Unprocessed; a preprocess call that succeeds leaves
\* the key derived by that call in place, from Unprocessed and from Ready
\* alike; and only a successful preprocess makes an Unprocessed Verifier Ready.
C4_SuccessfulPreprocessSetsKey ==
    /\ verifier_key = None
    /\ [][(PreprocessStep /\ result'.res.tag = "Ok")
            => verifier_key' = Some([gates |-> cs.gates,
                                     ck |-> result'.args[2]])]_vars
    /\ [][(verifier_key = None /\ verifier_key' # None)
            => (result'.op = "preprocess" /\ result'.res.tag = "Ok")]_vars

\* C4 witness: the Verifier is Ready holding the key of a successful preprocess
\* with commit key 2, after two circuit-size messages went into the
\* transcript (a second preprocess followed a first one).
C4_Witness ==
    /\ result.op = "preprocess" /\ result.res = Ok("unit")
    /\ verifier_key = Some([gates |-> cs.gates, ck |-> 2])
    /\ Len(preprocessed_transcript) = 3
    /\ preprocessed_transcript[2] = preprocessed_transcript[3]

-----------------------------------------------------------------------------
(* Claims about compute() *)

N4 == 4 * input.n
VanishingEvals == input.prover_key.v_h_coset_4n
EvalsComputed ==
    pc \in {"t1_begin", "t1", "t2_begin", "t2", "quotient", "finish"}
        \/ (pc = "returned" /\ outcome.tag \in {"Ok", "Panic"})
T1Complete ==
    pc \in {"t2_begin", "t2", "quotient", "finish"}
        \/ (pc = "returned" /\ outcome.tag \in {"Ok", "Panic"})
T2Complete ==
    pc \in {"quotient", "finish"}
        \/ (pc = "returned" /\ outcome.tag \in {"Ok", "Panic"})
QuotientComplete == pc = "finish" \/ (pc = "returned" /\ outcome.tag = "Ok")

\* C5: when the vanishing evaluation is zero at some coset index, compute
\* returns the error ZeroInversion (no panic, no silent result).
C5_ZeroInversionIsError ==
    (pc = "returned" /\ Domain4n.tag = "Ok"
        /\ \E i \in 0..(N4 - 1) : At(VanishingEvals, i) = 0)
    => (outcome.tag = "Err" /\ outcome.msg = "ZeroInversion")

\* C6: when the domain of size 4 * domain.size() cannot be built, compute
\* returns the error InvalidDomainSize and goes no further; and the t1 and t2
\* helpers, which build the same domain again, never panic on their unwrap.
C6_InvalidDomainIsReturned ==
    /\ (Domain4n.tag = "Err" /\ pc # "setup")
        => (pc = "returned"
            /\ outcome = Returned("Err", "InvalidDomainSize", <<>>))
    /\ outcome.msg # "unwrap on Err(InvalidDomainSize)"
    /\ (Domain4n.tag = "Ok" /\ pc # "setup")
        => (SatisfiabilityDomain = Domain4n /\ PermutationDomain = Domain4n)

\* C6 witness: compute has returned InvalidDomainSize for a domain whose
\* fourfold size the field has no subgroup for.
C6_Witness ==
    /\ pc = "returned" /\ outcome.tag = "Err"
    /\ outcome.msg = "InvalidDomainSize"
    /\ EvaluationDomainNew(input.n).tag = "Ok"

\* the quotient entry of index i is (t1[i] + t2[i]) times the inverse of the
\* vanishing evaluation at i
IsQuotientAt(i) ==
    \E inverse \in 1..(P - 1) :
        /\ FMul(At(VanishingEvals, i), inverse) = 1
        /\ At(quotient, i) = FMul(FAdd(At(t_1, i), At(t_2, i)), inverse)

\* C7: the quotient evaluations handed to the inverse coset transform are
\* 4n field elements, the one of index i being
\* (t1[i] + t2[i]) * inverse(vanishing[i]), with t1 and t2 of length 4n.
C7_QuotientEvaluations ==
    /\ QuotientComplete
        => /\ Len(quotient) = N4 /\ Len(t_1) = N4 /\ Len(t_2) = N4
           /\ \A i \in 0..(N4 - 1) : IsQuotientAt(i)
    /\ pc = "quotient" => \A i \in done : IsQuotientAt(i)

\* C7 witness: compute has returned a polynomial for a domain of size 2 whose
\* quotient evaluations are not all zero.
C7_Witness ==
    /\ pc = "returned" /\ outcome.tag = "Ok" /\ input.n = 2
    /\ \E i \in 0..(N4 - 1) : At(quotient, i) # 0 /\ At(quotient, i) # 1

\* ext is the 4n evaluations of poly followed by the first four of them
IsExtensionOf(ext, poly) ==
    LET orig == CosetFft(Domain4n.val, poly)
    IN  /\ Len(ext) = N4 + 4
        /\ \A i \in 0..(N4 - 1) : At(ext, i) = At(orig, i)
        /\ \A i \in 0..(N4 - 1) : At(ext, i + 4) = At(orig, (i + 4) % N4)

\* C8 as stated: each of the five sequences (z, wL, wR, wO, w4) is extended
\* to length 4n + 4, entry i + 4 being the evaluation of index (i + 4) mod 4n.
C8_AllFiveExtended ==
    EvalsComputed =>
        /\ IsExtensionOf(z_eval_4n, input.z_poly)
        /\ IsExtensionOf(wl_eval_4n, input.w_l_poly)
        /\ IsExtensionOf(wr_eval_4n, input.w_r_poly)
        /\ IsExtensionOf(wo_eval_4n, input.w_o_poly)
        /\ IsExtensionOf(w4_eval_4n, input.w_4_poly)

\* C8 amended: the four sequences z, wL, wR and w4 are extended that way; the
\* wO sequence is the 4n coset evaluations alone.
C8_FourExtended ==
    EvalsComputed =>
        /\ IsExtensionOf(z_eval_4n, input.z_poly)
        /\ IsExtensionOf(wl_eval_4n, input.w_l_poly)
        /\ IsExtensionOf(wr_eval_4n, input.w_r_poly)
        /\ IsExtensionOf(w4_eval_4n, input.w_4_poly)
        /\ wo_eval_4n = CosetFft(Domain4n.val, input.w_o_poly)
        /\ Len(wo_eval_4n) = N4

\* C8 witness: the evaluations of a domain of size 2 have been extended: of
\* the entries i + 4 some lie below 4n and some wrap around.
C8_Witness ==
    /\ pc = "t1_begin" /\ input.n = 2
    /\ Len(z_eval_4n) = 12 /\ Len(wo_eval_4n) = 8
    /\ At(z_eval_4n, 11) = At(z_eval_4n, 3)
    /\ At(z_eval_4n, 11) # At(z_eval_4n, 7)

\* the loops run in the order 0, 1, .. of the range (the build without std)
RECURSIVE T1Sequential(_, _)
T1Sequential(i, acc) ==
    IF i = N4 THEN acc ELSE T1Sequential(i + 1, Append(acc, T1At(i)))
RECURSIVE T2Sequential(_, _)
T2Sequential(i, acc) ==
    IF i = N4 THEN acc ELSE T2Sequential(i + 1, Append(acc, T2At(i)))
RECURSIVE QuotientSequential(_, _)
QuotientSequential(i, acc) ==
    IF i = N4 THEN acc
    ELSE QuotientSequential(i + 1, Append(acc, QuotientAt(i).val))

\* the arrays the loops read are what Setup and the helpers made of the
\* arguments
SharedInputsIntact ==
    /\ z_eval_4n = Extend(CosetFft(Domain4n.val, input.z_poly))
    /\ wl_eval_4n = Extend(CosetFft(Domain4n.val, input.w_l_poly))
    /\ wr_eval_4n = Extend(CosetFft(Domain4n.val, input.w_r_poly))
    /\ wo_eval_4n = CosetFft(Domain4n.val, input.w_o_poly)
    /\ w4_eval_4n = Extend(CosetFft(Domain4n.val, input.w_4_poly))
    /\ pc \notin {"t1_begin"}
        => pi_eval_4n = CosetFft(Domain4n.val, input.public_inputs_poly)

\* C9: whatever the order in which the indices of a loop are computed, the
\* loop's output is the one of the order 0 .. 4n-1, slot i holding the value
\* of index i, and no index computation changes the arrays the loops read;
\* with a zero vanishing evaluation every order ends in the same panic.
C9_OrderIndependent ==
    /\ EvalsComputed => SharedInputsIntact
    /\ pc = "t1" => \A i \in done : At(t_1, i) = T1At(i)
    /\ T1Complete => t_1 = T1Sequential(0, <<>>)
    /\ pc = "t2" => \A i \in done : At(t_2, i) = T2At(i)
    /\ T2Complete => t_2 = T2Sequential(0, <<>>)
    /\ pc = "quotient" => \A i \in done : At(quotient, i) = QuotientAt(i).val
    /\ QuotientComplete => quotient = QuotientSequential(0, <<>>)
    /\ (pc = "returned" /\ Domain4n.tag = "Ok")
        => (outcome.tag = "Panic"
                <=> \E i \in 0..(N4 - 1) : At(VanishingEvals, i) = 0)

\* C9 witness: the quotient loop of a domain of size 2 has computed its last
\* index and an inner one before its first, after t1 and t2 were completed.
C9_Witness ==
    /\ pc = "quotient" /\ input.n = 2
    /\ done = {7, 3}
    /\ At(quotient, 7) # Uninit /\ At(quotient, 0) = Uninit

AllReads ==
    UNION {T1Reads(i) \cup T2Reads(i) \cup QuotientReads(i) : i \in 0..(N4 - 1)}

\* C10: every read of compute and its helpers is within bounds: the
\* sequences read at i + 4 (wL, wR, w4, z) hold at least 4n + 4 entries, and
\* those of exactly 4n entries (wO, the public-input and Lagrange evaluations,
\* t1, t2, the vanishing evaluations) are read at index i alone.
C10_ReadsInBounds ==
    /\ outcome.msg # "index out of bounds"
    /\ EvalsComputed =>
        /\ Len(wl_eval_4n) >= N4 + 4 /\ Len(wr_eval_4n) >= N4 + 4
        /\ Len(w4_eval_4n) >= N4 + 4 /\ Len(z_eval_4n) >= N4 + 4
        /\ Len(wo_eval_4n) = N4
    /\ pc = "t1" =>
        /\ Len(pi_eval_4n) = N4
        /\ \A i \in 0..(N4 - 1) : ~OutOfBounds(T1Reads(i))
    /\ pc = "t2" =>
        /\ Len(l1_alpha_sq_evals) = N4
        /\ \A i \in 0..(N4 - 1) : ~OutOfBounds(T2Reads(i))
    /\ pc \in {"quotient", "finish"} =>
        /\ Len(t_1) = N4 /\ Len(t_2) = N4 /\ Len(VanishingEvals) = N4
        /\ ~OutOfBounds(AllReads)
        /\ \A i \in 0..(N4 - 1) :
             \A r \in T1Reads(i) \cup T2Reads(i) \cup QuotientReads(i) :
                /\ r.idx \in {i, i + 4}
                /\ r.idx = i + 4 => r.len >= N4 + 4
                /\ r.len = N4 => r.idx = i

\* C10 witness: the permutation loop of a domain of size 2 has computed its
\* last index, which reads z at 4n + 3, after the satisfiability loop ended.
C10_Witness ==
    /\ pc = "t2" /\ input.n = 2
    /\ 7 \in done /\ At(t_2, 7) # Uninit
    /\ Len(z_eval_4n) = 12

====
